---- MODULE Spec2Model ----
(***************************************************************************)
(* Model of the question-bank content store (src/src/question_bank/        *)
(* database.py): five SQLite relations with their foreign keys, and the    *)
(* store operations that write them.  Every store operation opens its own  *)
(* connection, runs its statements in one transaction, commits and closes. *)
(* A statement that raises skips the commit and the close: the call has no *)
(* effect on the tables, and its connection keeps the open transaction,    *)
(* and with it the write lock of the database file, until the interpreter  *)
(* finalizes the unreachable connection.  Until then every other write     *)
(* fails with "database is locked" once the busy timeout has passed.  Read *)
(* operations are operators over the committed tables.                     *)
(***************************************************************************)
EXTENDS Integers, Sequences, FiniteSets, TLC

VARIABLES
    question_banks,   \* id -> row of table question_banks
    topics,           \* id -> row of table topics
    questions,        \* id -> row of table questions
    question_topics,  \* set of <<question_id, topic_id>> rows
    question_tags,    \* set of <<question_id, tag>> rows
    leaked,           \* a connection abandoned with an open transaction is alive
    now,              \* the wall clock: it advances with every store call
    last              \* the last store call: op, args, outcome, tables before it

vars == <<question_banks, topics, questions, question_topics, question_tags,
          leaked, now, last>>

-----------------------------------------------------------------------------
(* Bounds of the exploration. *)

\* Number of store calls in a run.
MaxOps == 5

\* Number of tool calls in a run.
MaxToolOps == 4

\* Number of store calls before a read-only query is evaluated.
MaxQueryOps == 5

BankIds == {"bank-a", "bank-b"}
TopicIds == {"topic-a", "topic-b"}
QuestionIds == {"q-1", "q-2"}

-----------------------------------------------------------------------------
(* Values. *)

\* SQL NULL / Python None for a scalar.
NULL == "NULL"

\* Python None and a Python list (or SQL NULL and a TEXT value) for the
\* list-valued arguments and the options column.
None == <<>>
Some(v) == <<v>>
IsNone(o) == o = <<>>
Val(o) == o[1]

\* Python truthiness of a list argument: not None and not empty.
Truthy(o) == ~IsNone(o) /\ Len(Val(o)) > 0

\* str.lower() on the tags used here.
Lower(tag) ==
    CASE tag = "Algebra" -> "algebra"
      [] tag = "Basic" -> "basic"
      [] tag = "New" -> "new"
      [] OTHER -> tag

Range(s) == {s[i] : i \in 1..Len(s)}

RECURSIVE json_items(_)
json_items(l) ==
    IF Len(l) = 0 THEN <<>>
    ELSE IF Len(l) = 1 THEN <<l[1]>>
    ELSE <<l[1], ",">> \o json_items(Tail(l))

\* json.dumps of a list of strings: the text, as a sequence of tokens.
json_dumps(l) == <<"[">> \o json_items(l) \o <<"]">>

\* json.loads of such a text: the elements between the brackets, without
\* the commas.
json_loads(text) ==
    LET inner == SubSeq(text, 2, Len(text) - 1)
        n == (Len(inner) + 1) \div 2
    IN  [i \in 1..n |-> inner[2 * i - 1]]

-----------------------------------------------------------------------------
(* The tables as one value. *)

EmptyDb ==
    [question_banks |-> <<>>, topics |-> <<>>, questions |-> <<>>,
     question_topics |-> {}, question_tags |-> {}]

Db ==
    [question_banks |-> question_banks, topics |-> topics,
     questions |-> questions, question_topics |-> question_topics,
     question_tags |-> question_tags]

\* f with key k bound to row v.
Put(f, k, v) == [x \in (DOMAIN f) \cup {k} |-> IF x = k THEN v ELSE f[x]]

\* f without the keys in ks.
Drop(f, ks) == [x \in (DOMAIN f) \ ks |-> f[x]]

\* Outcome of a store call: the tables after it, the exception raised (""
\* for none) and the value returned.
Commit(db, ret) == [db |-> db, raised |-> "", ret |-> ret]
Raise(db, exc) == [db |-> db, raised |-> exc, ret |-> "None"]

\* The outcome of a call whose statements, on an unlocked database, have
\* outcome out: a call that writes while an abandoned connection holds the
\* lock raises instead.
Execute(db, locked, writes, out) ==
    IF locked /\ writes /\ out.raised # "OperationalError"
    THEN Raise(db, "OperationalError")
    ELSE out

-----------------------------------------------------------------------------
(* The schema: primary keys, foreign keys and their ON DELETE actions,     *)
(* enforced because every connection sets PRAGMA foreign_keys = ON.        *)

\* The columns of table questions.
QuestionColumns ==
    {"id", "bank_id", "question_type", "stem", "options", "correct_answer",
     "explanation", "difficulty", "bloom_level", "estimated_time_seconds",
     "points", "status", "author", "created_at", "updated_at", "times_used",
     "times_correct", "avg_time_seconds", "discrimination_index"}

\* CURRENT_TIMESTAMP (the column default) and datetime.now().isoformat()
\* write the time in two different text formats.
SqlTimestamp(t) == [fmt |-> "sql", t |-> t]
IsoTimestamp(t) == [fmt |-> "iso", t |-> t]

\* Mutant: the question rows go, the rows that refer to them stay.
RemoveQuestionsNoCascade(db, qs) ==
    [db EXCEPT !.questions = Drop(@, qs)]

\* question_topics.question_id and question_tags.question_id
\* REFERENCES questions(id) ON DELETE CASCADE.
RemoveQuestions(db, qs) ==
    [db EXCEPT
        !.questions = Drop(@, qs),
        !.question_topics = {r \in @ : r[1] \notin qs},
        !.question_tags = {r \in @ : r[1] \notin qs}]

\* Mutant: the topic rows go, the question_topics rows that refer to them
\* stay.
RemoveTopicsKeepLinks(db, ts) ==
    [db EXCEPT
        !.topics = [t \in (DOMAIN @) \ ts |->
                       IF @[t].parent_id \in ts
                       THEN [@[t] EXCEPT !.parent_id = NULL]
                       ELSE @[t]]]

\* Mutant: topics.parent_id is declared ON DELETE CASCADE, the child topics
\* go with their parent.
RemoveTopicsAndChildren(db, ts) ==
    LET gone == ts \cup {t \in DOMAIN db.topics : db.topics[t].parent_id \in ts}
    IN  [db EXCEPT
            !.topics = [t \in (DOMAIN @) \ gone |->
                           IF @[t].parent_id \in gone
                           THEN [@[t] EXCEPT !.parent_id = NULL]
                           ELSE @[t]],
            !.question_topics = {r \in @ : r[2] \notin gone}]

\* question_topics.topic_id REFERENCES topics(id) ON DELETE CASCADE;
\* topics.parent_id REFERENCES topics(id) ON DELETE SET NULL.
RemoveTopics(db, ts) ==
    [db EXCEPT
        !.topics = [t \in (DOMAIN @) \ ts |->
                       IF @[t].parent_id \in ts
                       THEN [@[t] EXCEPT !.parent_id = NULL]
                       ELSE @[t]],
        !.question_topics = {r \in @ : r[2] \notin ts}]

\* Mutant: the bank rows go, their topics and questions stay.
RemoveBanksNoCascade(db, bs) ==
    [db EXCEPT !.question_banks = Drop(@, bs)]

\* Mutant: the cascade goes on from the topics of the bank to the questions
\* linked to them, whatever their bank.
RemoveBanksAndLinked(db, bs) ==
    LET ts == {t \in DOMAIN db.topics : db.topics[t].bank_id \in bs}
        qs == {q \in DOMAIN db.questions : db.questions[q].bank_id \in bs}
                 \cup {r[1] : r \in {x \in db.question_topics : x[2] \in ts}}
        d1 == RemoveQuestions(RemoveTopics(db, ts), qs)
    IN  [d1 EXCEPT !.question_banks = Drop(@, bs)]

\* topics.bank_id and questions.bank_id
\* REFERENCES question_banks(id) ON DELETE CASCADE.
RemoveBanks(db, bs) ==
    LET ts == {t \in DOMAIN db.topics : db.topics[t].bank_id \in bs}
        qs == {q \in DOMAIN db.questions : db.questions[q].bank_id \in bs}
        d1 == RemoveQuestions(RemoveTopics(db, ts), qs)
    IN  [d1 EXCEPT !.question_banks = Drop(@, bs)]

\* The foreign keys of a row about to be inserted into question_topics.
LinkRefsOk(db, q, t) == q \in DOMAIN db.questions /\ t \in DOMAIN db.topics

\* The foreign key of a row about to be inserted into question_tags.
TagRefsOk(db, q) == q \in DOMAIN db.questions

-----------------------------------------------------------------------------
(* Question bank operations. *)

\* Mutant: INSERT OR REPLACE, a second create overwrites the stored row.
create_bank_or_replace(db, bank_id, name, subject, description, grade_level) ==
    Commit([db EXCEPT !.question_banks =
               Put(@, bank_id, [name |-> name, description |-> description,
                                subject |-> subject,
                                grade_level |-> grade_level])],
           "row")

create_question_bank(db, bank_id, name, subject, description, grade_level) ==
    IF bank_id \in DOMAIN db.question_banks
    THEN Raise(db, "IntegrityError")
    ELSE Commit([db EXCEPT !.question_banks =
                    Put(@, bank_id, [name |-> name, description |-> description,
                                     subject |-> subject,
                                     grade_level |-> grade_level])],
                "row")

get_question_bank(db, bank_id) ==
    IF bank_id \in DOMAIN db.question_banks
    THEN Some(db.question_banks[bank_id])
    ELSE None

\* DELETE FROM question_banks WHERE id = ?; true when a row was removed.
delete_question_bank(db, bank_id) ==
    IF bank_id \in DOMAIN db.question_banks
    THEN Commit(RemoveBanks(db, {bank_id}), "True")
    ELSE Commit(db, "False")

-----------------------------------------------------------------------------
(* Topic operations. *)

\* Mutant: the foreign key of parent_id is not enforced.
create_topic_any_parent(db, topic_id, bank_id, name, parent_id, description) ==
    IF \/ topic_id \in DOMAIN db.topics
       \/ bank_id \notin DOMAIN db.question_banks
    THEN Raise(db, "IntegrityError")
    ELSE Commit([db EXCEPT !.topics =
                    Put(@, topic_id, [bank_id |-> bank_id, name |-> name,
                                      parent_id |-> parent_id,
                                      description |-> description])],
                "row")

\* Mutant: a topic that names itself as its parent is refused.
create_topic_no_self_parent(db, topic_id, bank_id, name, parent_id, description) ==
    IF \/ topic_id \in DOMAIN db.topics
       \/ bank_id \notin DOMAIN db.question_banks
       \/ parent_id # NULL /\ parent_id \notin DOMAIN db.topics
    THEN Raise(db, "IntegrityError")
    ELSE Commit([db EXCEPT !.topics =
                    Put(@, topic_id, [bank_id |-> bank_id, name |-> name,
                                      parent_id |-> parent_id,
                                      description |-> description])],
                "row")

create_topic(db, topic_id, bank_id, name, parent_id, description) ==
    IF \/ topic_id \in DOMAIN db.topics
       \/ bank_id \notin DOMAIN db.question_banks
       \/ /\ parent_id # NULL
          /\ parent_id # topic_id
          /\ parent_id \notin DOMAIN db.topics
    THEN Raise(db, "IntegrityError")
    ELSE Commit([db EXCEPT !.topics =
                    Put(@, topic_id, [bank_id |-> bank_id, name |-> name,
                                      parent_id |-> parent_id,
                                      description |-> description])],
                "row")

\* The rows of list_topics(bank_id): the topics of the bank, each with the
\* number of its question_topics rows.
list_topics(db, bank_id) ==
    {[id |-> t, name |-> db.topics[t].name,
      parent_id |-> db.topics[t].parent_id,
      question_count |-> Cardinality({r \in db.question_topics : r[2] = t})] :
        t \in {x \in DOMAIN db.topics : db.topics[x].bank_id = bank_id}}

\* DELETE FROM topics WHERE id = ?; true when a row was removed.
delete_topic(db, topic_id) ==
    IF topic_id \in DOMAIN db.topics
    THEN Commit(RemoveTopics(db, {topic_id}), "True")
    ELSE Commit(db, "False")

-----------------------------------------------------------------------------
(* Question operations. *)

\* Mutant: every INSERT is an INSERT OR IGNORE.
RECURSIVE InsertRowsOrIgnore(_, _, _)
InsertRowsOrIgnore(table, rows, or_ignore) ==
    IF Len(rows) = 0 THEN [ok |-> TRUE, table |-> table]
    ELSE InsertRowsOrIgnore(table \cup {Head(rows)}, Tail(rows), or_ignore)

\* A sequence of INSERT statements into a table whose primary key is the
\* whole row.  INSERT OR IGNORE skips a row that is already there; a plain
\* INSERT of such a row fails.
RECURSIVE InsertRows(_, _, _)
InsertRows(table, rows, or_ignore) ==
    IF Len(rows) = 0 THEN [ok |-> TRUE, table |-> table]
    ELSE IF Head(rows) \in table
         THEN IF or_ignore
              THEN InsertRows(table, Tail(rows), or_ignore)
              ELSE [ok |-> FALSE, table |-> table]
         ELSE InsertRows(table \cup {Head(rows)}, Tail(rows), or_ignore)

\* Mutant: the old rows of the question are kept (merge, not replace).
DeleteRowsOfNone(table, question_id) == table

\* DELETE FROM question_topics (or question_tags) WHERE question_id = ?.
DeleteRowsOf(table, question_id) == {r \in table : r[1] # question_id}

\* The question_topics rows written for a list of topic ids.
TopicRows(question_id, topic_ids) ==
    [i \in 1..Len(topic_ids) |-> <<question_id, topic_ids[i]>>]

\* Mutant: the tags are stored as given.
TagRowsAsGiven(question_id, tag_list) ==
    [i \in 1..Len(tag_list) |-> <<question_id, tag_list[i]>>]

\* The question_tags rows written for a list of tags.
TagRows(question_id, tag_list) ==
    [i \in 1..Len(tag_list) |-> <<question_id, Lower(tag_list[i])>>]

\* The options column written by create_question.
CreateOptionsColumn(options) ==
    IF Truthy(options) THEN Some(json_dumps(Val(options))) ELSE None

\* The options column written by update_question when the key is supplied.
UpdateOptionsColumn(options) ==
    IF ~IsNone(options) THEN Some(json_dumps(Val(options))) ELSE None

\* The options of a row as get_question and search_questions return them.
ReadOptions(column) ==
    IF ~IsNone(column) /\ Len(Val(column)) > 0
    THEN Some(json_loads(Val(column)))
    ELSE None

\* create_question: a is the record of its arguments, t the time of the call.
create_question(db, t, a) ==
    LET q == a.question_id
        row == [bank_id |-> a.bank_id,
                question_type |-> a.question_type,
                stem |-> a.stem,
                options |-> CreateOptionsColumn(a.options),
                correct_answer |-> a.correct_answer,
                explanation |-> a.explanation,
                difficulty |-> a.difficulty,
                bloom_level |-> a.bloom_level,
                estimated_time_seconds |-> a.estimated_time_seconds,
                points |-> a.points,
                status |-> a.status,
                author |-> a.author,
                created_at |-> SqlTimestamp(t),
                updated_at |-> SqlTimestamp(t),
                times_used |-> 0,
                times_correct |-> 0,
                avg_time_seconds |-> NULL,
                discrimination_index |-> NULL]
        d1 == [db EXCEPT !.questions = Put(@, q, row)]
        links == IF Truthy(a.topics)
                 THEN InsertRows(d1.question_topics,
                                 TopicRows(q, Val(a.topics)), TRUE)
                 ELSE [ok |-> TRUE, table |-> d1.question_topics]
        links_fk == Truthy(a.topics) =>
                        \A x \in Range(Val(a.topics)) : LinkRefsOk(d1, q, x)
        tagged == IF Truthy(a.tags)
                  THEN InsertRows(d1.question_tags,
                                  TagRows(q, Val(a.tags)), TRUE)
                  ELSE [ok |-> TRUE, table |-> d1.question_tags]
    IN  IF q \in DOMAIN db.questions \/ a.bank_id \notin DOMAIN db.question_banks
        THEN Raise(db, "IntegrityError")
        ELSE IF ~links_fk \/ ~links.ok \/ ~tagged.ok
        THEN Raise(db, "IntegrityError")
        ELSE Commit([d1 EXCEPT !.question_topics = links.table,
                               !.question_tags = tagged.table],
                    "row")

\* get_question: None, or the row with its options decoded, the ids and
\* names of its topics and its tags.
get_question(db, question_id) ==
    IF question_id \notin DOMAIN db.questions THEN None
    ELSE Some([id |-> question_id,
               row |-> db.questions[question_id],
               options |-> ReadOptions(db.questions[question_id].options),
               topics |-> {[id |-> r[2], name |-> db.topics[r[2]].name] :
                             r \in {x \in db.question_topics :
                                      x[1] = question_id /\ x[2] \in DOMAIN db.topics}},
               tags |-> {r[2] : r \in {x \in db.question_tags : x[1] = question_id}}])

\* The keys of **updates that go into the SET clause: all but the popped
\* topics and tags.
SetKeys(updates) == (DOMAIN updates) \ {"topics", "tags"}

\* The value bound to column k of the SET clause.
SetValue(updates, k, t) ==
    IF k = "updated_at" THEN IsoTimestamp(t)
    ELSE IF k = "options" THEN UpdateOptionsColumn(updates[k])
    ELSE updates[k]

\* The columns of the SET clause: the supplied keys and updated_at, or none
\* when no key is left after the pops.
SetColumns(updates) ==
    IF SetKeys(updates) # {} THEN SetKeys(updates) \cup {"updated_at"} ELSE {}

\* The row after UPDATE questions SET ... WHERE id = ?.
UpdatedRow(row, updates, t) ==
    LET cols == SetColumns(updates)
        V(k) == IF k \in cols THEN SetValue(updates, k, t) ELSE row[k]
    IN  [bank_id |-> V("bank_id"),
         question_type |-> V("question_type"),
         stem |-> V("stem"),
         options |-> V("options"),
         correct_answer |-> V("correct_answer"),
         explanation |-> V("explanation"),
         difficulty |-> V("difficulty"),
         bloom_level |-> V("bloom_level"),
         estimated_time_seconds |-> V("estimated_time_seconds"),
         points |-> V("points"),
         status |-> V("status"),
         author |-> V("author"),
         created_at |-> V("created_at"),
         updated_at |-> V("updated_at"),
         times_used |-> V("times_used"),
         times_correct |-> V("times_correct"),
         avg_time_seconds |-> V("avg_time_seconds"),
         discrimination_index |-> V("discrimination_index")]

\* Mutant: the UPDATE has no WHERE clause.
UpdateEveryRow(table, question_id, updates, t) ==
    [x \in DOMAIN table |-> UpdatedRow(table[x], updates, t)]

\* Mutant: a status is only moved forward, draft to active to archived.
UpdateWhereForward(table, question_id, updates, t) ==
    LET rank == [draft |-> 1, active |-> 2, archived |-> 3]
        back(x) == /\ "status" \in DOMAIN updates
                   /\ updates.status \in DOMAIN rank
                   /\ table[x].status \in DOMAIN rank
                   /\ rank[updates.status] < rank[table[x].status]
    IN  [x \in DOMAIN table |->
            IF x = question_id /\ ~back(x)
            THEN UpdatedRow(table[x], updates, t)
            ELSE table[x]]

\* The table questions after UPDATE questions SET ... WHERE id = ?.
UpdateWhere(table, question_id, updates, t) ==
    [x \in DOMAIN table |->
        IF x = question_id THEN UpdatedRow(table[x], updates, t) ELSE table[x]]

\* The exception raised when the UPDATE statement is compiled: a key that
\* is no column of questions makes SQLite reject the statement.
UpdateColumnError(updates) ==
    IF SetColumns(updates) \subseteq QuestionColumns
    THEN ""
    ELSE "OperationalError"

\* Mutant: every statement is committed as it is executed, so a call that
\* fails at an INSERT keeps its UPDATE and its DELETE of the old rows.
update_question_autocommit(db, t, question_id, updates) ==
    LET q == question_id
        topic_ids == IF "topics" \in DOMAIN updates THEN updates.topics ELSE None
        tag_list == IF "tags" \in DOMAIN updates THEN updates.tags ELSE None
        exists == q \in DOMAIN db.questions
        d1 == IF SetColumns(updates) # {}
              THEN [db EXCEPT !.questions = UpdateWhere(@, q, updates, t)]
              ELSE db
        links == IF ~IsNone(topic_ids)
                 THEN InsertRows(DeleteRowsOf(d1.question_topics, q),
                                 TopicRows(q, Val(topic_ids)), FALSE)
                 ELSE [ok |-> TRUE, table |-> d1.question_topics]
        links_fk == ~IsNone(topic_ids) =>
                        \A x \in Range(Val(topic_ids)) : LinkRefsOk(d1, q, x)
        tagged == IF ~IsNone(tag_list)
                  THEN InsertRows(DeleteRowsOf(d1.question_tags, q),
                                  TagRows(q, Val(tag_list)), FALSE)
                  ELSE [ok |-> TRUE, table |-> d1.question_tags]
        tags_fk == (~IsNone(tag_list) /\ Len(Val(tag_list)) > 0) => TagRefsOk(d1, q)
        unlinked == IF ~IsNone(topic_ids)
                    THEN [d1 EXCEPT !.question_topics = DeleteRowsOf(@, q)]
                    ELSE d1
    IN  IF UpdateColumnError(updates) # ""
        THEN Raise(db, UpdateColumnError(updates))
        ELSE IF ~links_fk \/ ~links.ok \/ ~tags_fk \/ ~tagged.ok
        THEN Raise(unlinked, "IntegrityError")
        ELSE Commit([d1 EXCEPT !.question_topics = links.table,
                               !.question_tags = tagged.table],
                    IF exists THEN "row" ELSE "None")

\* update_question(question_id, **updates) at time t.  The key "id" is not
\* among the keys modelled.
update_question(db, t, question_id, updates) ==
    LET q == question_id
        topic_ids == IF "topics" \in DOMAIN updates THEN updates.topics ELSE None
        tag_list == IF "tags" \in DOMAIN updates THEN updates.tags ELSE None
        exists == q \in DOMAIN db.questions
        d1 == IF SetColumns(updates) # {}
              THEN [db EXCEPT !.questions = UpdateWhere(@, q, updates, t)]
              ELSE db
        fk_ok == exists =>
                    d1.questions[q].bank_id \in DOMAIN d1.question_banks
        links == IF ~IsNone(topic_ids)
                 THEN InsertRows(DeleteRowsOf(d1.question_topics, q),
                                 TopicRows(q, Val(topic_ids)), FALSE)
                 ELSE [ok |-> TRUE, table |-> d1.question_topics]
        links_fk == ~IsNone(topic_ids) =>
                        \A x \in Range(Val(topic_ids)) : LinkRefsOk(d1, q, x)
        tagged == IF ~IsNone(tag_list)
                  THEN InsertRows(DeleteRowsOf(d1.question_tags, q),
                                  TagRows(q, Val(tag_list)), FALSE)
                  ELSE [ok |-> TRUE, table |-> d1.question_tags]
        tags_fk == (~IsNone(tag_list) /\ Len(Val(tag_list)) > 0) => TagRefsOk(d1, q)
    IN  IF UpdateColumnError(updates) # ""
        THEN Raise(db, UpdateColumnError(updates))
        ELSE IF ~fk_ok \/ ~links_fk \/ ~links.ok \/ ~tags_fk \/ ~tagged.ok
        THEN Raise(db, "IntegrityError")
        ELSE Commit([d1 EXCEPT !.question_topics = links.table,
                               !.question_tags = tagged.table],
                    IF exists THEN "row" ELSE "None")

\* update_question executes a write statement when a key is left for the
\* SET clause or a topics or tags list is given.
UpdateWrites(updates) ==
    \/ SetColumns(updates) # {}
    \/ ("topics" \in DOMAIN updates /\ ~IsNone(updates.topics))
    \/ ("tags" \in DOMAIN updates /\ ~IsNone(updates.tags))

\* Mutant: the row count is not looked at.
delete_question_always_true(db, question_id) ==
    Commit(RemoveQuestions(db, {question_id}), "True")

\* DELETE FROM questions WHERE id = ?; true when a row was removed.
delete_question(db, question_id) ==
    IF question_id \in DOMAIN db.questions
    THEN Commit(RemoveQuestions(db, {question_id}), "True")
    ELSE Commit(db, "False")

-----------------------------------------------------------------------------
(* Aggregate queries.  Difficulty is kept in tenths: 3 stands for 0.3. *)

\* The questions selected by WHERE bank_id = ?.
BankRows(db, bank_id) ==
    {q \in DOMAIN db.questions : db.questions[q].bank_id = bank_id}

\* SUM(col) over the selected questions (0 stands for the sum of no row).
RECURSIVE SumColumn(_, _, _)
SumColumn(db, qs, col) ==
    IF qs = {} THEN 0
    ELSE LET q == CHOOSE x \in qs : TRUE
         IN  db.questions[q][col] + SumColumn(db, qs \ {q}, col)

\* SELECT col, COUNT(*) ... GROUP BY col, read into a dict.
GroupCount(db, qs, col) ==
    [v \in {db.questions[q][col] : q \in qs} |->
        Cardinality({q \in qs : db.questions[q][col] = v})]

\* Mutant: the medium bucket is closed at 0.7.
DifficultyBucketsOverlap(db, qs) ==
    [easy |-> Cardinality({q \in qs : db.questions[q].difficulty < 3}),
     medium |-> Cardinality({q \in qs : /\ db.questions[q].difficulty >= 3
                                        /\ db.questions[q].difficulty <= 7}),
     hard |-> Cardinality({q \in qs : db.questions[q].difficulty >= 7})]

\* COUNT(CASE WHEN difficulty < 0.3 ...), ... >= 0.3 AND < 0.7, ... >= 0.7.
DifficultyBuckets(db, qs) ==
    [easy |-> Cardinality({q \in qs : db.questions[q].difficulty < 3}),
     medium |-> Cardinality({q \in qs : /\ db.questions[q].difficulty >= 3
                                        /\ db.questions[q].difficulty < 7}),
     hard |-> Cardinality({q \in qs : db.questions[q].difficulty >= 7})]

\* The rows of SELECT t.name, COUNT(qt.question_id) ... LEFT JOIN
\* question_topics ... WHERE t.bank_id = ? GROUP BY t.id.
TopicCountRows(db, bank_id) ==
    {[id |-> t, name |-> db.topics[t].name,
      question_count |-> Cardinality({r \in db.question_topics : r[2] = t})] :
        t \in {x \in DOMAIN db.topics : db.topics[x].bank_id = bank_id}}

\* ORDER BY question_count DESC: the rows as a sequence, rows of equal count
\* in one of the orders SQLite may give them.
RECURSIVE OrderByCountDesc(_)
OrderByCountDesc(rows) ==
    IF rows = {} THEN <<>>
    ELSE LET r == CHOOSE x \in rows :
                      \A y \in rows : y.question_count <= x.question_count
         IN  <<r>> \o OrderByCountDesc(rows \ {r})

\* {row['name']: row['question_count'] for row in rows}: a later row with
\* the same name replaces the earlier one.
RECURSIVE NameDict(_)
NameDict(rows) ==
    IF Len(rows) = 0 THEN <<>>
    ELSE LET n == Len(rows)
             d == NameDict(SubSeq(rows, 1, n - 1))
         IN  Put(d, rows[n].name, rows[n].question_count)

get_bank_statistics(db, bank_id) ==
    LET qs == BankRows(db, bank_id)
        n == Cardinality(qs)
    IN  [total_questions |-> n,
         active_questions |->
             Cardinality({q \in qs : db.questions[q].status = "active"}),
         draft_questions |->
             Cardinality({q \in qs : db.questions[q].status = "draft"}),
         avg_difficulty |->
             IF n = 0 THEN NULL
             ELSE [sum |-> SumColumn(db, qs, "difficulty"), count |-> n],
         total_points |->
             IF n = 0 THEN NULL ELSE SumColumn(db, qs, "points"),
         by_type |-> GroupCount(db, qs, "question_type"),
         by_bloom_level |->
             GroupCount(db, {q \in qs : db.questions[q].bloom_level # NULL},
                        "bloom_level"),
         by_difficulty |-> DifficultyBuckets(db, qs),
         by_topic |-> NameDict(OrderByCountDesc(TopicCountRows(db, bank_id)))]

\* The rows of question_banks LEFT JOIN questions LEFT JOIN topics for one
\* bank: a side without a matching row contributes one row of NULLs.
BankJoinRows(db, bank_id) ==
    LET qs == BankRows(db, bank_id)
        ts == {t \in DOMAIN db.topics : db.topics[t].bank_id = bank_id}
    IN  (IF qs = {} THEN {NULL} ELSE qs) \X (IF ts = {} THEN {NULL} ELSE ts)

\* Mutant: COUNT(x) without DISTINCT counts the rows of the join.
CountRows(rows, i) == Cardinality({r \in rows : r[i] # NULL})

\* COUNT(DISTINCT x) over column i of the joined rows.
CountDistinct(rows, i) == Cardinality({r[i] : r \in rows} \ {NULL})

\* The rows of list_question_banks.
list_question_banks(db) ==
    {[id |-> b, name |-> db.question_banks[b].name,
      question_count |-> CountDistinct(BankJoinRows(db, b), 1),
      topic_count |-> CountDistinct(BankJoinRows(db, b), 2)] :
        b \in DOMAIN db.question_banks}

-----------------------------------------------------------------------------
(* search_questions. *)

\* Python truthiness of an optional string argument.
Given(v) == v # NULL /\ v # ""

\* Text order of two updated_at values.  The two formats agree on the date
\* (all calls of a run fall on one day, local time being UTC) and differ in
\* the next character: a space in CURRENT_TIMESTAMP's text, the letter T in
\* isoformat()'s, and the space sorts first.
TextBefore(a, b) ==
    IF a.fmt = b.fmt THEN a.t < b.t ELSE a.fmt = "sql"

\* q.stem LIKE %text% OR q.explanation LIKE %text%, for the texts used here.
Like(row, text) ==
    \/ text = "stem" /\ row.stem = "New stem"
    \/ text = "2+2" /\ row.stem = "What is 2+2?"

\* The rows of questions q [JOIN question_topics qt] [JOIN question_tags tg]
\* that satisfy the WHERE clause: the question with the joined link and tag.
SearchRows(db, a) ==
    LET join_topics == Given(a.topic_id)
        join_tags == Truthy(a.tags)
        wanted == IF join_tags THEN {Lower(x) : x \in Range(Val(a.tags))}
                  ELSE {}
        qts(q) == IF join_topics
                  THEN {r[2] : r \in {x \in db.question_topics : x[1] = q}}
                  ELSE {NULL}
        tgs(q) == IF join_tags
                  THEN {r[2] : r \in {x \in db.question_tags : x[1] = q}}
                  ELSE {NULL}
        joined == UNION {{[id |-> q, qt |-> t, tg |-> g] :
                             t \in qts(q), g \in tgs(q)} :
                         q \in DOMAIN db.questions}
        row(r) == db.questions[r.id]
    IN  {r \in joined :
            /\ join_topics => r.qt = a.topic_id
            /\ join_tags => r.tg \in wanted
            /\ Given(a.bank_id) => row(r).bank_id = a.bank_id
            /\ Given(a.question_type) =>
                  row(r).question_type = a.question_type
            /\ Given(a.bloom_level) => row(r).bloom_level = a.bloom_level
            /\ ~IsNone(a.difficulty_min) =>
                  row(r).difficulty >= Val(a.difficulty_min)
            /\ ~IsNone(a.difficulty_max) =>
                  row(r).difficulty <= Val(a.difficulty_max)
            /\ Given(a.status) => row(r).status = a.status
            /\ Given(a.search_text) => Like(row(r), a.search_text)}

\* Mutant: SELECT q.* keeps one row per joined row.
SelectAll(rows) == rows

\* SELECT DISTINCT q.*: the joined columns are dropped and equal rows
\* collapse.
SelectDistinct(rows) == {[id |-> r.id, qt |-> NULL, tg |-> NULL] : r \in rows}

\* ORDER BY q.updated_at DESC: rows of equal updated_at in one of the
\* orders SQLite may give them.
RECURSIVE OrderByUpdatedDesc(_, _)
OrderByUpdatedDesc(db, rows) ==
    IF rows = {} THEN <<>>
    ELSE LET r == CHOOSE x \in rows : \A y \in rows :
                      ~TextBefore(db.questions[x.id].updated_at,
                                  db.questions[y.id].updated_at)
         IN  <<r>> \o OrderByUpdatedDesc(db, rows \ {r})

\* LIMIT ? OFFSET ?: a negative limit is no limit, a negative offset none.
LimitOffset(rows, limit, offset) ==
    LET first == IF offset < 0 THEN 1 ELSE offset + 1
        n == IF limit < 0 THEN Len(rows) ELSE limit
        end == IF first + n - 1 > Len(rows) THEN Len(rows) ELSE first + n - 1
    IN  SubSeq(rows, first, end)

\* search_questions: a is the record of its arguments.  The result is the
\* list of the rows, each with its options decoded.
search_questions(db, a) ==
    LET rows == LimitOffset(OrderByUpdatedDesc(db, SelectDistinct(SearchRows(db, a))),
                            a.limit, a.offset)
    IN  [i \in 1..Len(rows) |->
            [id |-> rows[i].id, row |-> db.questions[rows[i].id],
             options |-> ReadOptions(db.questions[rows[i].id].options)]]

-----------------------------------------------------------------------------
(* The tool layer (src/src/question_bank/server.py).  A tool validates its  *)
(* arguments, calls the store and returns a message; db is the tables,      *)
(* locked tells whether an abandoned connection holds the write lock, t is  *)
(* the time.  A store call that raises ends the tool call with that         *)
(* exception.  The identifier a tool generates (uuid4) is the argument id.  *)

valid_types == {"multiple_choice", "true_false", "short_answer", "essay"}
valid_bloom ==
    {"remember", "understand", "apply", "analyze", "evaluate", "create"}
valid_status == {"draft", "active", "archived"}

\* The outcome of a store write made by a tool: the message on success.
Returning(res, message) ==
    IF res.raised # "" THEN res ELSE Commit(res.db, message)

tool_create_question_bank(db, locked, id, name, subject) ==
    Returning(Execute(db, locked, TRUE,
                      create_question_bank(db, id, name, subject, NULL, NULL)),
              "Question Bank Created")

tool_delete_question_bank(db, locked, bank_id) ==
    IF IsNone(get_question_bank(db, bank_id))
    THEN Commit(db, "Question bank not found")
    ELSE LET res == Execute(db, locked, TRUE, delete_question_bank(db, bank_id))
         IN  IF res.raised # "" THEN res
             ELSE IF res.ret = "True"
                  THEN Commit(res.db, "Question bank deleted")
                  ELSE Commit(res.db, "Failed to delete question bank")

tool_create_topic(db, locked, id, bank_id, name, parent_topic_id) ==
    IF IsNone(get_question_bank(db, bank_id))
    THEN Commit(db, "Question bank not found")
    ELSE Returning(Execute(db, locked, TRUE,
                           create_topic(db, id, bank_id, name, parent_topic_id,
                                        NULL)),
                   "Topic Created")

\* Mutant: the topic is not looked up in the bank given.
tool_delete_topic_any_bank(db, locked, bank_id, topic_id) ==
    IF IsNone(get_question_bank(db, bank_id))
    THEN Commit(db, "Question bank not found")
    ELSE LET res == Execute(db, locked, TRUE, delete_topic(db, topic_id))
         IN  IF res.raised # "" THEN res
             ELSE IF res.ret = "True"
                  THEN Commit(res.db, "Topic deleted")
                  ELSE Commit(res.db, "Topic not found in this bank")

tool_delete_topic(db, locked, bank_id, topic_id) ==
    IF IsNone(get_question_bank(db, bank_id))
    THEN Commit(db, "Question bank not found")
    ELSE IF topic_id \notin {r.id : r \in list_topics(db, bank_id)}
    THEN Commit(db, "Topic not found in this bank")
    ELSE LET res == Execute(db, locked, TRUE, delete_topic(db, topic_id))
         IN  IF res.raised # "" THEN res
             ELSE IF res.ret = "True"
                  THEN Commit(res.db, "Topic deleted")
                  ELSE Commit(res.db, "Failed to delete topic")

\* The message create_question rejects its arguments with, "" when it
\* accepts them (difficulty in tenths).
CreateQuestionRejection(db, a) ==
    IF IsNone(get_question_bank(db, a.bank_id))
        THEN "Question bank not found"
    ELSE IF a.question_type \notin valid_types
        THEN "Invalid question type"
    ELSE IF Given(a.bloom_level) /\ a.bloom_level \notin valid_bloom
        THEN "Invalid Bloom's level"
    ELSE IF a.question_type = "multiple_choice" /\ ~Truthy(a.options)
        THEN "Multiple choice questions require options"
    ELSE IF ~(0 <= a.difficulty /\ a.difficulty <= 10)
        THEN "Difficulty must be between 0.0 and 1.0"
    ELSE IF a.points < 0
        THEN "Points must be non-negative"
    ELSE IF a.estimated_time_seconds < 1
        THEN "Estimated time must be at least 1 second"
    ELSE ""

\* The arguments the tool create_question passes to the store.
StoreCreateArgs(id, a) ==
    [question_id |-> id, bank_id |-> a.bank_id,
     question_type |-> a.question_type, stem |-> a.stem,
     correct_answer |-> a.correct_answer, options |-> a.options,
     explanation |-> a.explanation, difficulty |-> a.difficulty,
     bloom_level |-> a.bloom_level,
     estimated_time_seconds |-> a.estimated_time_seconds,
     points |-> a.points, topics |-> a.topic_ids, tags |-> a.tags,
     author |-> NULL, status |-> "draft"]

tool_create_question(db, locked, t, id, a) ==
    IF CreateQuestionRejection(db, a) # ""
    THEN Commit(db, CreateQuestionRejection(db, a))
    ELSE Returning(Execute(db, locked, TRUE,
                           create_question(db, t, StoreCreateArgs(id, a))),
                   "question")

\* The message update_question rejects its arguments with before it looks
\* at which fields are supplied, "" when it accepts them.  A field that is
\* not supplied is NULL (a string) or None (a number or a list).
UpdateQuestionRejection(db, question_id, u) ==
    IF IsNone(get_question(db, question_id))
        THEN "Question not found"
    ELSE IF u.bloom_level # NULL /\ u.bloom_level \notin valid_bloom
        THEN "Invalid Bloom's level"
    ELSE IF u.status # NULL /\ u.status \notin valid_status
        THEN "Invalid status"
    ELSE IF ~IsNone(u.difficulty)
            /\ ~(0 <= Val(u.difficulty) /\ Val(u.difficulty) <= 10)
        THEN "Difficulty must be between 0.0 and 1.0"
    ELSE IF ~IsNone(u.points) /\ Val(u.points) < 0
        THEN "Points must be non-negative"
    ELSE IF ~IsNone(u.estimated_time_seconds)
            /\ Val(u.estimated_time_seconds) < 1
        THEN "Estimated time must be at least 1 second"
    ELSE ""

\* Mutant: an update that supplies a status counts as a use of the question.
ToolUpdatesCountingUse(u) ==
    LET strings == {k \in {"stem", "correct_answer", "explanation",
                           "bloom_level", "status"} : u[k] # NULL}
        numbers == {k \in {"difficulty", "estimated_time_seconds", "points"} :
                        ~IsNone(u[k])}
        lists == {k \in {"options", "tags"} : ~IsNone(u[k])}
        topic_key == IF ~IsNone(u.topic_ids) THEN {"topics"} ELSE {}
        used == IF u.status # NULL THEN {"times_used"} ELSE {}
    IN  [k \in strings \cup numbers \cup lists \cup topic_key \cup used |->
            IF k \in numbers THEN Val(u[k])
            ELSE IF k = "topics" THEN u.topic_ids
            ELSE IF k = "times_used" THEN 1
            ELSE u[k]]

\* The updates dict the tool builds: one key per supplied field, topic_ids
\* under the key topics.
ToolUpdates(u) ==
    LET strings == {k \in {"stem", "correct_answer", "explanation",
                           "bloom_level", "status"} : u[k] # NULL}
        numbers == {k \in {"difficulty", "estimated_time_seconds", "points"} :
                        ~IsNone(u[k])}
        lists == {k \in {"options", "tags"} : ~IsNone(u[k])}
        topic_key == IF ~IsNone(u.topic_ids) THEN {"topics"} ELSE {}
    IN  [k \in strings \cup numbers \cup lists \cup topic_key |->
            IF k \in numbers THEN Val(u[k])
            ELSE IF k = "topics" THEN u.topic_ids
            ELSE u[k]]

tool_update_question(db, locked, t, question_id, u) ==
    IF UpdateQuestionRejection(db, question_id, u) # ""
    THEN Commit(db, UpdateQuestionRejection(db, question_id, u))
    ELSE IF DOMAIN ToolUpdates(u) = {}
    THEN Commit(db, "No updates provided")
    ELSE Returning(Execute(db, locked, UpdateWrites(ToolUpdates(u)),
                           update_question(db, t, question_id, ToolUpdates(u))),
                   "Question updated")

tool_delete_question(db, locked, question_id) ==
    IF IsNone(get_question(db, question_id))
    THEN Commit(db, "Question not found")
    ELSE LET res == Execute(db, locked, TRUE, delete_question(db, question_id))
         IN  IF res.raised # "" THEN res
             ELSE IF res.ret = "True"
                  THEN Commit(res.db, "Question deleted")
                  ELSE Commit(res.db, "Failed to delete question")

\* Mutant: the limit is capped at 100 and has no floor.
ClampLimitNoFloor(limit) == IF limit < 100 THEN limit ELSE 100

\* max(1, min(limit, 100)).
ClampLimit(limit) ==
    LET capped == IF limit < 100 THEN limit ELSE 100
    IN  IF capped > 1 THEN capped ELSE 1

\* The tool search_questions: a is the record of its arguments.  The
\* message reports the number of questions found, and lists them.
tool_search_questions(db, a) ==
    LET found == search_questions(db, [a EXCEPT !.limit = ClampLimit(a.limit)])
    IN  IF Len(found) = 0
        THEN Commit(db, [message |-> "No questions found", count |-> 0,
                         ids |-> <<>>])
        ELSE Commit(db, [message |-> "Found", count |-> Len(found),
                         ids |-> [i \in 1..Len(found) |-> found[i].id]])

\* Mutant: a question that is already active is activated again.
ActivateOneAlways(db, locked, t, qid) ==
    IF IsNone(get_question(db, qid))
    THEN Commit(db, "not found")
    ELSE Returning(Execute(db, locked, TRUE,
                           update_question(db, t, qid, [status |-> "active"])),
                   "activated")

\* One turn of the loop of activate_questions.
ActivateOne(db, locked, t, qid) ==
    IF IsNone(get_question(db, qid))
    THEN Commit(db, "not found")
    ELSE IF Val(get_question(db, qid)).row.status = "active"
    THEN Commit(db, "already active")
    ELSE Returning(Execute(db, locked, TRUE,
                           update_question(db, t, qid, [status |-> "active"])),
                   "activated")

\* The loop of activate_questions over the ids left, with the lists
\* activated and errors built so far.
RECURSIVE ActivateLoop(_, _, _, _, _, _)
ActivateLoop(db, locked, t, ids, activated, errors) ==
    IF Len(ids) = 0
    THEN Commit(db, [activated |-> activated, errors |-> errors])
    ELSE LET qid == Head(ids)
             one == ActivateOne(db, locked, t, qid)
         IN  IF one.raised # "" THEN one
             ELSE IF one.ret = "activated"
             THEN ActivateLoop(one.db, locked, t, Tail(ids),
                               Append(activated, qid), errors)
             ELSE ActivateLoop(one.db, locked, t, Tail(ids), activated,
                               Append(errors, <<qid, one.ret>>))

tool_activate_questions(db, locked, t, question_ids) ==
    ActivateLoop(db, locked, t, question_ids, <<>>, <<>>)

-----------------------------------------------------------------------------
(* The calls the store receives. *)

\* The calls of create_question_bank: id and name.
BankCalls ==
    {<<"bank-a", "Algebra I">>, <<"bank-a", "Biology">>, <<"bank-b", "Biology">>}

\* The calls of create_topic: id, name and parent_id.
TopicCalls ==
    {<<"topic-a", "Linear Eqs", NULL>>,
     <<"topic-a", "Linear Eqs", "topic-a">>,
     <<"topic-b", "Linear Eqs", NULL>>,
     <<"topic-b", "Quadratics", NULL>>,
     <<"topic-b", "Quadratics", "topic-a">>}

\* Keyword arguments of create_question left at their defaults.
DefaultArgs ==
    [question_type |-> "multiple_choice", stem |-> "What is 2+2?",
     correct_answer |-> "4", options |-> None, explanation |-> NULL,
     difficulty |-> 5, bloom_level |-> NULL, estimated_time_seconds |-> 60,
     points |-> 1, topics |-> None, tags |-> None, author |-> NULL,
     status |-> "draft"]

\* b with the fields of a overriding it.
Override(b, a) ==
    [k \in DOMAIN b |-> IF k \in DOMAIN a THEN a[k] ELSE b[k]]

\* The keyword arguments create_question is called with (difficulty in
\* tenths).
CreateKwargs ==
    {[options |-> Some(<<"4", "3">>), difficulty |-> 3,
      bloom_level |-> "remember", topics |-> Some(<<"topic-a", "topic-a">>),
      tags |-> Some(<<"Algebra", "algebra">>)],
     [options |-> Some(<<>>), topics |-> Some(<<"topic-a", "topic-b">>),
      tags |-> Some(<<"algebra", "Basic">>)],
     [question_type |-> "true_false", difficulty |-> 7,
      topics |-> Some(<<"topic-b">>), tags |-> Some(<<>>)],
     [question_type |-> "short_answer", difficulty |-> 2,
      topics |-> Some(<<>>),
      tags |-> Some(<<"Basic">>), status |-> "active"]}

\* The keyword arguments update_question is called with.
UpdateKwargs ==
    {[stem |-> "New stem", difficulty |-> 9],
     [status |-> "active"],
     [options |-> Some(<<"A", "B">>)],
     [options |-> Some(<<>>)],
     [topics |-> Some(<<"topic-b">>)],
     [topics |-> Some(<<>>), tags |-> Some(<<"New">>)],
     [topics |-> Some(<<"topic-a", "topic-a">>)],
     [tags |-> Some(<<"Algebra", "algebra">>)],
     [tags |-> Some(<<"logic", "Basic">>)],
     [evil_column |-> "drop table", stem |-> "New stem",
      topics |-> Some(<<"topic-b">>), tags |-> Some(<<"New">>)]}

\* Arguments of search_questions left at their defaults.
SearchDefaults ==
    [bank_id |-> NULL, topic_id |-> NULL, question_type |-> NULL,
     bloom_level |-> NULL, difficulty_min |-> None, difficulty_max |-> None,
     status |-> NULL, tags |-> None, search_text |-> NULL, limit |-> 50,
     offset |-> 0]

\* The keyword arguments search_questions is called with.
SearchKwargs ==
    {<<>>,
     [bank_id |-> "bank-a"],
     [topic_id |-> "topic-a"],
     [question_type |-> "true_false"],
     [bloom_level |-> "remember"],
     [difficulty_min |-> Some(3), difficulty_max |-> Some(7)],
     [difficulty_min |-> Some(5), difficulty_max |-> Some(10)],
     [status |-> "active"],
     [tags |-> Some(<<"algebra">>)],
     [tags |-> Some(<<"Algebra", "basic">>)],
     [tags |-> Some(<<>>)],
     [bank_id |-> "bank-a", topic_id |-> "topic-b",
      tags |-> Some(<<"Basic", "algebra">>)],
     [search_text |-> "stem", status |-> "draft"]}

-----------------------------------------------------------------------------
(* The state machine. *)

NoCall == [op |-> "none", args |-> <<>>, raised |-> "", ret |-> "None",
           pre |-> EmptyDb, locked |-> FALSE, at |-> 0]

Init ==
    /\ question_banks = EmptyDb.question_banks
    /\ topics = EmptyDb.topics
    /\ questions = EmptyDb.questions
    /\ question_topics = EmptyDb.question_topics
    /\ question_tags = EmptyDb.question_tags
    /\ leaked = FALSE
    /\ now = 0
    /\ last = NoCall

\* The connection of a call is abandoned with its transaction open when a
\* statement raises after the transaction has begun.
Abandons(res) == res.raised = "IntegrityError"

\* One store call made at time now: its outcome becomes the tables, and the
\* call is recorded.
Call(op, args, writes, out) ==
    LET res == Execute(Db, leaked, writes, out)
    IN  /\ now < MaxOps
        /\ question_banks' = res.db.question_banks
        /\ topics' = res.db.topics
        /\ questions' = res.db.questions
        /\ question_topics' = res.db.question_topics
        /\ question_tags' = res.db.question_tags
        /\ leaked' = (leaked \/ Abandons(res))
        /\ now' = now + 1
        /\ last' = [op |-> op, args |-> args, raised |-> res.raised,
                    ret |-> res.ret, pre |-> Db, locked |-> leaked,
                    at |-> now]

\* The garbage collector finalizes the abandoned connections: their
\* transactions are rolled back and the lock is released.
CollectGarbage ==
    /\ leaked
    /\ leaked' = FALSE
    /\ UNCHANGED <<question_banks, topics, questions, question_topics,
                   question_tags, now, last>>

CreateBank ==
    \E c \in BankCalls :
        Call("create_question_bank", [bank_id |-> c[1], name |-> c[2]],
             TRUE, create_question_bank(Db, c[1], c[2], "Math", NULL, NULL))

DeleteBank ==
    \E b \in BankIds :
        Call("delete_question_bank", [bank_id |-> b],
             TRUE, delete_question_bank(Db, b))

CreateTopic ==
    \E c \in TopicCalls, b \in BankIds :
        Call("create_topic",
             [topic_id |-> c[1], bank_id |-> b, name |-> c[2],
              parent_id |-> c[3]],
             TRUE, create_topic(Db, c[1], b, c[2], c[3], NULL))

DeleteTopic ==
    \E t \in TopicIds :
        Call("delete_topic", [topic_id |-> t], TRUE, delete_topic(Db, t))

CreateQuestion ==
    \E q \in QuestionIds, b \in BankIds, kw \in CreateKwargs :
        LET a == [question_id |-> q, bank_id |-> b] @@ Override(DefaultArgs, kw)
        IN  Call("create_question", a, TRUE, create_question(Db, now, a))

UpdateQuestion ==
    \E q \in QuestionIds, kw \in UpdateKwargs :
        Call("update_question", [question_id |-> q, updates |-> kw],
             UpdateWrites(kw), update_question(Db, now, q, kw))

DeleteQuestion ==
    \E q \in QuestionIds :
        Call("delete_question", [question_id |-> q], TRUE,
             delete_question(Db, q))

Next ==
    \/ CollectGarbage
    \/ CreateBank
    \/ DeleteBank
    \/ CreateTopic
    \/ DeleteTopic
    \/ CreateQuestion
    \/ UpdateQuestion
    \/ DeleteQuestion

Spec == Init /\ [][Next]_vars

-----------------------------------------------------------------------------
(* The tables the read-only queries (get_bank_statistics,                   *)
(* list_question_banks, search_questions) are evaluated on.  The store      *)
(* receives the same calls with the same arguments; a query reads the       *)
(* tables only, so the record of the last call is left as it is.            *)

\* One store call made at time now: its outcome becomes the tables.
Write(writes, out) ==
    LET res == Execute(Db, leaked, writes, out)
    IN  /\ now < MaxQueryOps
        /\ question_banks' = res.db.question_banks
        /\ topics' = res.db.topics
        /\ questions' = res.db.questions
        /\ question_topics' = res.db.question_topics
        /\ question_tags' = res.db.question_tags
        /\ leaked' = (leaked \/ Abandons(res))
        /\ now' = now + 1
        /\ UNCHANGED last

WriteCreateBank ==
    \E c \in BankCalls :
        Write(TRUE, create_question_bank(Db, c[1], c[2], "Math", NULL, NULL))

WriteDeleteBank ==
    \E b \in BankIds : Write(TRUE, delete_question_bank(Db, b))

WriteCreateTopic ==
    \E c \in TopicCalls, b \in BankIds :
        Write(TRUE, create_topic(Db, c[1], b, c[2], c[3], NULL))

WriteDeleteTopic ==
    \E t \in TopicIds : Write(TRUE, delete_topic(Db, t))

WriteCreateQuestion ==
    \E q \in QuestionIds, b \in BankIds, kw \in CreateKwargs :
        LET a == [question_id |-> q, bank_id |-> b] @@ Override(DefaultArgs, kw)
        IN  Write(TRUE, create_question(Db, now, a))

WriteUpdateQuestion ==
    \E q \in QuestionIds, kw \in UpdateKwargs :
        Write(UpdateWrites(kw), update_question(Db, now, q, kw))

WriteDeleteQuestion ==
    \E q \in QuestionIds : Write(TRUE, delete_question(Db, q))

QueryNext ==
    \/ CollectGarbage
    \/ WriteCreateBank
    \/ WriteDeleteBank
    \/ WriteCreateTopic
    \/ WriteDeleteTopic
    \/ WriteCreateQuestion
    \/ WriteUpdateQuestion
    \/ WriteDeleteQuestion

QuerySpec == Init /\ [][QueryNext]_vars

-----------------------------------------------------------------------------
(* The calls the tool layer receives, and its state machine. *)

\* Arguments of the tool create_question left at their defaults.
ToolCreateDefaults ==
    [question_type |-> "short_answer", stem |-> "What is 2+2?",
     correct_answer |-> "4", options |-> None, explanation |-> NULL,
     difficulty |-> 5, bloom_level |-> NULL, estimated_time_seconds |-> 60,
     points |-> 1, topic_ids |-> None, tags |-> None]

\* The keyword arguments the tool create_question is called with.
ToolCreateKwargs ==
    {[question_type |-> "multiple_choice", options |-> Some(<<"3", "4">>),
      bloom_level |-> "remember", topic_ids |-> Some(<<"topic-a">>),
      tags |-> Some(<<"Algebra">>)],
     [question_type |-> "true_false", difficulty |-> 10, points |-> 0,
      estimated_time_seconds |-> 1],
     [question_type |-> "essay", bloom_level |-> ""],
     [question_type |-> "quiz"],
     [bloom_level |-> "memorize"],
     [question_type |-> "multiple_choice"],
     [question_type |-> "multiple_choice", options |-> Some(<<>>)],
     [difficulty |-> 11],
     [difficulty |-> 0 - 1],
     [points |-> 0 - 1],
     [estimated_time_seconds |-> 0]}

\* Arguments of the tool update_question left at their defaults.
ToolUpdateDefaults ==
    [stem |-> NULL, correct_answer |-> NULL, options |-> None,
     explanation |-> NULL, difficulty |-> None, bloom_level |-> NULL,
     estimated_time_seconds |-> None, points |-> None, topic_ids |-> None,
     tags |-> None, status |-> NULL]

\* The keyword arguments the tool update_question is called with.
ToolUpdateKwargs ==
    {<<>>,
     [stem |-> "New stem"],
     [status |-> "archived"],
     [status |-> "draft"],
     [status |-> "active"],
     [status |-> "published"],
     [bloom_level |-> "memorize"],
     [bloom_level |-> ""],
     [difficulty |-> Some(11)],
     [difficulty |-> Some(0 - 1)],
     [points |-> Some(0 - 5)],
     [estimated_time_seconds |-> Some(0)],
     [difficulty |-> Some(0), points |-> Some(0),
      estimated_time_seconds |-> Some(1), bloom_level |-> "create"],
     [options |-> Some(<<>>)],
     [topic_ids |-> Some(<<"topic-b">>), tags |-> Some(<<"New">>)]}

\* The calls of the tool create_topic: name and parent_topic_id.
ToolTopicCalls == {<<"Linear Eqs", NULL>>, <<"Quadratics", "topic-a">>}

\* The lists activate_questions is called with.
ActivateCalls ==
    {<<>>, <<"q-1">>, <<"q-1", "q-2">>, <<"q-2", "q-1", "q-2">>,
     <<"q-1", "q-1", "q-2">>}

\* The calls of the tool search_questions: limit and filters.
ToolSearchCalls ==
    {<<0 - 1, <<>> >>, <<0, <<>> >>, <<1, <<>> >>, <<2, <<>> >>,
     <<101, <<>> >>, <<0, [status |-> "active"]>>,
     <<2, [status |-> "active"]>>}

\* One tool call made at time now, with outcome res.
ToolCall(op, args, res) ==
    /\ now < MaxToolOps
    /\ question_banks' = res.db.question_banks
    /\ topics' = res.db.topics
    /\ questions' = res.db.questions
    /\ question_topics' = res.db.question_topics
    /\ question_tags' = res.db.question_tags
    /\ leaked' = (leaked \/ Abandons(res))
    /\ now' = now + 1
    /\ last' = [op |-> op, args |-> args, raised |-> res.raised,
                ret |-> res.ret, pre |-> Db, locked |-> leaked, at |-> now]

ToolCreateBank ==
    \E id \in BankIds :
        ToolCall("tool_create_question_bank", [name |-> "Algebra I"],
                 tool_create_question_bank(Db, leaked, id, "Algebra I", "Math"))

ToolDeleteBank ==
    \E b \in BankIds :
        ToolCall("tool_delete_question_bank", [bank_id |-> b],
                 tool_delete_question_bank(Db, leaked, b))

ToolCreateTopic ==
    \E id \in TopicIds, b \in BankIds, c \in ToolTopicCalls :
        ToolCall("tool_create_topic",
                 [bank_id |-> b, name |-> c[1], parent_topic_id |-> c[2]],
                 tool_create_topic(Db, leaked, id, b, c[1], c[2]))

ToolDeleteTopic ==
    \E b \in BankIds, t \in TopicIds :
        ToolCall("tool_delete_topic", [bank_id |-> b, topic_id |-> t],
                 tool_delete_topic(Db, leaked, b, t))

ToolCreateQuestion ==
    \E id \in QuestionIds, b \in BankIds, kw \in ToolCreateKwargs :
        LET a == [bank_id |-> b] @@ Override(ToolCreateDefaults, kw)
        IN  ToolCall("tool_create_question", a,
                     tool_create_question(Db, leaked, now, id, a))

ToolUpdateQuestion ==
    \E q \in QuestionIds, kw \in ToolUpdateKwargs :
        LET u == Override(ToolUpdateDefaults, kw)
        IN  ToolCall("tool_update_question",
                     [question_id |-> q, updates |-> u],
                     tool_update_question(Db, leaked, now, q, u))

ToolDeleteQuestion ==
    \E q \in QuestionIds :
        ToolCall("tool_delete_question", [question_id |-> q],
                 tool_delete_question(Db, leaked, q))

ToolSearchQuestions ==
    \E c \in ToolSearchCalls :
        LET a == [Override(SearchDefaults, c[2]) EXCEPT !.limit = c[1]]
        IN  ToolCall("tool_search_questions", a,
                     tool_search_questions(Db, a))

ToolActivateQuestions ==
    \E ids \in ActivateCalls :
        ToolCall("tool_activate_questions", [question_ids |-> ids],
                 tool_activate_questions(Db, leaked, now, ids))

ToolNext ==
    \/ CollectGarbage
    \/ ToolCreateBank
    \/ ToolDeleteBank
    \/ ToolCreateTopic
    \/ ToolDeleteTopic
    \/ ToolCreateQuestion
    \/ ToolUpdateQuestion
    \/ ToolDeleteQuestion
    \/ ToolSearchQuestions
    \/ ToolActivateQuestions

ToolSpec == Init /\ [][ToolNext]_vars

-----------------------------------------------------------------------------
(* Vocabulary of the properties. *)

\* The tables before the last call.
Pre == last.pre

Returned(op, ret) == last.op = op /\ last.raised = "" /\ last.ret = ret

BankTopics(db, b) == {t \in DOMAIN db.topics : db.topics[t].bank_id = b}
BankQuestions(db, b) == {q \in DOMAIN db.questions : db.questions[q].bank_id = b}
LinkedTopics(db, q) == {r[2] : r \in {x \in db.question_topics : x[1] = q}}
LinkedQuestions(db, t) == {r[1] : r \in {x \in db.question_topics : x[2] = t}}
TagsOf(db, q) == {r[2] : r \in {x \in db.question_tags : x[1] = q}}

\* No question_topics or question_tags row refers to a missing row.
NoDanglingRows(db) ==
    /\ \A r \in db.question_topics :
          r[1] \in DOMAIN db.questions /\ r[2] \in DOMAIN db.topics
    /\ \A r \in db.question_tags : r[1] \in DOMAIN db.questions

-----------------------------------------------------------------------------
(* C1: after delete_question_bank(b) returned true, get_question_bank(b)   *)
(* is absent, no topic and no question of b remains (get_question of each  *)
(* former question of b is absent, list_topics(b) is empty), and no        *)
(* question_topics or question_tags row refers to a removed row.           *)
C1_DeleteBankCascades ==
    Returned("delete_question_bank", "True") =>
        LET b == last.args.bank_id
        IN  /\ IsNone(get_question_bank(Db, b))
            /\ BankTopics(Db, b) = {}
            /\ BankQuestions(Db, b) = {}
            /\ \A q \in BankQuestions(Pre, b) : IsNone(get_question(Db, q))
            /\ list_topics(Db, b) = {}
            /\ NoDanglingRows(Db)

\* A bank with a topic and a linked, tagged question was deleted.
C1_Witness ==
    /\ Returned("delete_question_bank", "True")
    /\ \E q \in BankQuestions(Pre, last.args.bank_id) :
          /\ LinkedTopics(Pre, q) \cap BankTopics(Pre, last.args.bank_id) # {}
          /\ TagsOf(Pre, q) # {}

(* C2: after delete_topic(t) returned true, the topic row and every link   *)
(* to t are gone, and every question that was linked to t still exists     *)
(* with its row, its tags and its links to other topics unchanged.         *)
C2_DeleteTopicUnlinks ==
    Returned("delete_topic", "True") =>
        LET t == last.args.topic_id
        IN  /\ t \notin DOMAIN topics
            /\ LinkedQuestions(Db, t) = {}
            /\ \A q \in LinkedQuestions(Pre, t) :
                  /\ q \in DOMAIN questions
                  /\ questions[q] = Pre.questions[q]
                  /\ TagsOf(Db, q) = TagsOf(Pre, q)
                  /\ LinkedTopics(Db, q) = LinkedTopics(Pre, q) \ {t}
                  /\ (LinkedTopics(Pre, q) = {t} =>
                          Val(get_question(Db, q)).topics = {})

\* A topic was deleted that a tagged question was linked to, one question
\* linked to another topic as well.
C2_Witness ==
    /\ Returned("delete_topic", "True")
    /\ \E q \in LinkedQuestions(Pre, last.args.topic_id) :
          /\ LinkedTopics(Pre, q) # {last.args.topic_id}
          /\ TagsOf(Pre, q) # {}

(* C3: update_question called with a field name outside the allowed column *)
(* set fails with the explicit ValueError ("Invalid column") raised before  *)
(* any query is built, and the tables are exactly as before the call, also  *)
(* when valid fields, topics or tags are supplied in the same call.         *)
C3_InvalidFieldRejected ==
    (/\ last.op = "update_question"
     /\ last.args.question_id \in DOMAIN Pre.questions
     /\ ~(SetKeys(last.args.updates) \subseteq QuestionColumns)) =>
        /\ last.raised = "ValueError"
        /\ Db = Pre

(* C4: after a successful update_question(q, topics=L) the topics linked   *)
(* to q are exactly the ids in L, and after a successful                   *)
(* update_question(q, tags=L) the tags of q are exactly the lowercased     *)
(* elements of L, whatever q had before; a relation whose key is not       *)
(* supplied is unchanged.                                                  *)
C4_RelationsReplaced ==
    last.op = "update_question" =>
        LET q == last.args.question_id
            u == last.args.updates
            given(k) == k \in DOMAIN u /\ ~IsNone(u[k])
        IN  /\ (last.raised = "" /\ given("topics")) =>
                    LinkedTopics(Db, q) = Range(Val(u.topics))
            /\ (last.raised = "" /\ given("tags")) =>
                    TagsOf(Db, q) = {Lower(x) : x \in Range(Val(u.tags))}
            /\ ~given("topics") => LinkedTopics(Db, q) = LinkedTopics(Pre, q)
            /\ ~given("tags") => TagsOf(Db, q) = TagsOf(Pre, q)

\* A question linked to one topic was relinked to another one only, its
\* tags left alone.
C4_Witness ==
    /\ Returned("update_question", "row")
    /\ "topics" \in DOMAIN last.args.updates
    /\ "tags" \notin DOMAIN last.args.updates
    /\ LinkedTopics(Pre, last.args.question_id) # {}
    /\ LinkedTopics(Pre, last.args.question_id)
          \cap LinkedTopics(Db, last.args.question_id) = {}
    /\ LinkedTopics(Db, last.args.question_id) # {}
    /\ TagsOf(Db, last.args.question_id) # {}

\* The columns update_question may change besides the supplied ones.
Refreshed == {"updated_at"}

(* C5: update_question(q, fields) changes only the supplied scalar fields  *)
(* of q and its updated_at: every other column of q keeps its value, and   *)
(* every other question (with its links and tags), every topic and every   *)
(* bank is unchanged.                                                      *)
C5_UpdateIsPartial ==
    last.op = "update_question" =>
        LET q == last.args.question_id
            u == last.args.updates
        IN  /\ DOMAIN questions = DOMAIN Pre.questions
            /\ \A x \in (DOMAIN questions) \ {q} :
                  /\ questions[x] = Pre.questions[x]
                  /\ LinkedTopics(Db, x) = LinkedTopics(Pre, x)
                  /\ TagsOf(Db, x) = TagsOf(Pre, x)
            /\ topics = Pre.topics
            /\ question_banks = Pre.question_banks
            /\ q \in DOMAIN questions =>
                  \A c \in (DOMAIN questions[q]) \ (SetKeys(u) \cup Refreshed) :
                      questions[q][c] = Pre.questions[q][c]

\* Two scalar fields of one of two questions were updated.
C5_Witness ==
    /\ Returned("update_question", "row")
    /\ Cardinality(DOMAIN questions) = 2
    /\ Cardinality(SetKeys(last.args.updates)) = 2
    /\ questions[last.args.question_id] # Pre.questions[last.args.question_id]

(* C6: every successful update_question call on an existing question sets  *)
(* its updated_at to the time of the call, including a call that supplies  *)
(* only the topics key or only the tags key.                               *)
C6_UpdateRefreshesTimestamp ==
    (/\ last.op = "update_question"
     /\ last.raised = ""
     /\ last.args.question_id \in DOMAIN Pre.questions) =>
        questions[last.args.question_id].updated_at = IsoTimestamp(last.at)

(* C7: for every option list supplied to create_question, or to            *)
(* update_question under the options key, a following get_question         *)
(* returns the same ordered sequence, the empty list included; a question  *)
(* created without options returns no options.                             *)
C7_OptionsRoundTrip ==
    /\ Returned("create_question", "row") =>
          Val(get_question(Db, last.args.question_id)).options =
              last.args.options
    /\ (/\ Returned("update_question", "row")
        /\ "options" \in DOMAIN last.args.updates
        /\ ~IsNone(last.args.updates.options)) =>
          Val(get_question(Db, last.args.question_id)).options =
              last.args.updates.options

\* create_question is given a new id, an existing bank and existing topics.
CreateAccepted(db, a) ==
    /\ a.question_id \notin DOMAIN db.questions
    /\ a.bank_id \in DOMAIN db.question_banks
    /\ ~IsNone(a.topics) => Range(Val(a.topics)) \subseteq DOMAIN db.topics

\* The elements of a list argument, none for None.
Elements(o) == IF IsNone(o) THEN {} ELSE Range(Val(o))

(* C8: create_question with tag list L (given a new id, an existing bank   *)
(* and existing topics, on a database no abandoned connection holds        *)
(* locked) succeeds and stores exactly the tags {lower(t) : t in L}: tags  *)
(* that differ only in case collapse to one, and a repeated topic id       *)
(* gives one link.                                                         *)
C8_CreateDeduplicates ==
    (/\ last.op = "create_question"
     /\ ~last.locked
     /\ CreateAccepted(Pre, last.args)) =>
        /\ last.raised = ""
        /\ TagsOf(Db, last.args.question_id) =
              {Lower(x) : x \in Elements(last.args.tags)}
        /\ LinkedTopics(Db, last.args.question_id) = Elements(last.args.topics)

\* A question was created from a tag list and a topic list that both
\* repeat an element.
C8_Witness ==
    /\ Returned("create_question", "row")
    /\ Cardinality(TagsOf(Db, last.args.question_id)) = 1
    /\ Len(Val(last.args.tags)) = 2
    /\ Cardinality(LinkedTopics(Db, last.args.question_id)) = 1
    /\ Len(Val(last.args.topics)) = 2

(* C9: in every reachable state every topic and every question refers to   *)
(* an existing bank, every question_topics row to an existing question and *)
(* an existing topic, and every question_tags row to an existing question. *)
C9_ForeignKeysHold ==
    /\ \A t \in DOMAIN topics : topics[t].bank_id \in DOMAIN question_banks
    /\ \A q \in DOMAIN questions :
          questions[q].bank_id \in DOMAIN question_banks
    /\ NoDanglingRows(Db)

\* A linked and tagged question was deleted while another linked and tagged
\* question stays.
C9_Witness ==
    /\ Returned("delete_question", "True")
    /\ LinkedTopics(Pre, last.args.question_id) # {}
    /\ question_topics # {}
    /\ question_tags # {}

\* The call named a row that its table did not hold.
DeletedMissing ==
    \/ /\ last.op = "delete_question"
       /\ last.args.question_id \notin DOMAIN Pre.questions
    \/ /\ last.op = "delete_topic"
       /\ last.args.topic_id \notin DOMAIN Pre.topics
    \/ /\ last.op = "delete_question_bank"
       /\ last.args.bank_id \notin DOMAIN Pre.question_banks

(* C10: delete_question(id) returns true exactly when a question with that *)
(* id existed; afterwards get_question(id) is absent, no question_topics   *)
(* or question_tags row refers to id, and every other question, topic and  *)
(* bank is unchanged.  delete_question, delete_topic and                   *)
(* delete_question_bank on an id that does not exist leave the tables      *)
(* unchanged and return false (unless the database is locked).             *)
C10_DeleteQuestion ==
    /\ (last.op = "delete_question" /\ last.raised = "") =>
          LET q == last.args.question_id
          IN  /\ last.ret = "True" <=> q \in DOMAIN Pre.questions
              /\ IsNone(get_question(Db, q))
              /\ LinkedTopics(Db, q) = {} /\ TagsOf(Db, q) = {}
              /\ questions = Drop(Pre.questions, {q})
              /\ question_topics = {r \in Pre.question_topics : r[1] # q}
              /\ question_tags = {r \in Pre.question_tags : r[1] # q}
              /\ topics = Pre.topics
              /\ question_banks = Pre.question_banks
    /\ DeletedMissing =>
          /\ Db = Pre
          /\ last.raised = "" => last.ret = "False"
          /\ ~last.locked => last.raised = ""

\* One of two linked and tagged questions was deleted.
C10_Witness ==
    /\ Returned("delete_question", "True")
    /\ TagsOf(Pre, last.args.question_id) # {}
    /\ LinkedTopics(Pre, last.args.question_id) # {}
    /\ \E x \in DOMAIN questions : TagsOf(Db, x) # {} /\ LinkedTopics(Db, x) # {}

(* C11: create_question_bank with an id that is already stored fails (with *)
(* the constraint violation IntegrityError, unless an abandoned connection *)
(* holds the database locked and the call fails with OperationalError),    *)
(* and the stored bank with that id and the rest of the tables are         *)
(* unchanged.                                                              *)
C11_DuplicateBankRejected ==
    (/\ last.op = "create_question_bank"
     /\ last.args.bank_id \in DOMAIN Pre.question_banks) =>
        /\ last.raised # ""
        /\ ~last.locked => last.raised = "IntegrityError"
        /\ question_banks[last.args.bank_id] =
              Pre.question_banks[last.args.bank_id]
        /\ Db = Pre

\* A stored bank was created again under another name, with a topic and a
\* question in the store.
C11_Witness ==
    /\ last.op = "create_question_bank"
    /\ last.raised = "IntegrityError"
    /\ last.args.bank_id \in DOMAIN Pre.question_banks
    /\ Pre.question_banks[last.args.bank_id].name # last.args.name
    /\ topics # <<>>
    /\ questions # <<>>

\* The sum of the counts of a dict.
RECURSIVE SumDict(_)
SumDict(d) ==
    IF DOMAIN d = {} THEN 0
    ELSE LET k == CHOOSE x \in DOMAIN d : TRUE
         IN  d[k] + SumDict(Drop(d, {k}))

\* What C12 says of the counts of bank b, the empty mappings aside.
StatisticsCountsOk(b) ==
    LET s == get_bank_statistics(Db, b)
        n == Cardinality(BankQuestions(Db, b))
    IN  /\ s.total_questions = n
        /\ SumDict(s.by_type) = n
        /\ s.active_questions + s.draft_questions <= n
        /\ s.by_difficulty.easy + s.by_difficulty.medium
              + s.by_difficulty.hard = n
        /\ \A q \in BankQuestions(Db, b) :
              LET d == questions[q].difficulty
                  in_easy == IF d < 3 THEN 1 ELSE 0
                  in_medium == IF d >= 3 /\ d < 7 THEN 1 ELSE 0
                  in_hard == IF d >= 7 THEN 1 ELSE 0
              IN  in_easy + in_medium + in_hard = 1
        /\ n = 0 =>
              /\ s.active_questions = 0 /\ s.draft_questions = 0
              /\ s.by_difficulty = [easy |-> 0, medium |-> 0, hard |-> 0]
              /\ s.by_type = <<>>
              /\ s.by_bloom_level = <<>>

(* C12 as stated: for every bank, total_questions is the number of its     *)
(* questions, the by_type counts sum to it, active + draft <= total, the   *)
(* three difficulty buckets sum to it, and for a bank with no questions    *)
(* every count is 0 and by_type, by_bloom_level and by_topic are empty.    *)
C12_StatisticsAsStated ==
    \A b \in DOMAIN question_banks :
        /\ StatisticsCountsOk(b)
        /\ BankQuestions(Db, b) = {} =>
              get_bank_statistics(Db, b).by_topic = <<>>

(* C12 amended: the same, except that by_topic of a bank with no questions *)
(* is empty when the bank has no topic either; otherwise its keys are the  *)
(* names of the topics of the bank.                                        *)
C12_Statistics ==
    \A b \in DOMAIN question_banks :
        /\ StatisticsCountsOk(b)
        /\ BankQuestions(Db, b) = {} =>
              DOMAIN get_bank_statistics(Db, b).by_topic =
                  {topics[t].name : t \in BankTopics(Db, b)}

\* One bank holds two questions in two difficulty buckets, one of them on a
\* bucket boundary, and another bank holds a topic and no question.
C12_Witness ==
    /\ \E b \in DOMAIN question_banks :
          LET s == get_bank_statistics(Db, b)
          IN  /\ s.total_questions = 2
              /\ s.by_difficulty.hard = 1
              /\ \E q \in BankQuestions(Db, b) : questions[q].difficulty = 7
              /\ s.by_difficulty.easy + s.by_difficulty.medium = 1
    /\ \E b \in DOMAIN question_banks :
          /\ BankQuestions(Db, b) = {}
          /\ BankTopics(Db, b) # {}

\* The topics of bank b that are named n.
TopicsNamed(db, b, n) == {t \in BankTopics(db, b) : db.topics[t].name = n}

(* C13: by_topic of get_bank_statistics(b) has one key per topic name used *)
(* in bank b, and gives for each name the number of questions linked to    *)
(* the topics of b with that name (0 when none is linked), also when two   *)
(* topics of b have the same name.                                         *)
C13_ByTopicCounts ==
    \A b \in DOMAIN question_banks :
        LET by_topic == get_bank_statistics(Db, b).by_topic
        IN  /\ DOMAIN by_topic = {topics[t].name : t \in BankTopics(Db, b)}
            /\ \A n \in DOMAIN by_topic :
                  by_topic[n] =
                      Cardinality(UNION {LinkedQuestions(Db, t) :
                                           t \in TopicsNamed(Db, b, n)})

(* C17: in every reachable state list_question_banks has one entry per     *)
(* bank, with question_count the number of questions of the bank and       *)
(* topic_count the number of its topics, and list_topics(b) has exactly    *)
(* the topics of b, each with question_count the number of questions       *)
(* linked to it.                                                           *)
C17_ListCounts ==
    /\ {r.id : r \in list_question_banks(Db)} = DOMAIN question_banks
    /\ Cardinality(list_question_banks(Db)) = Cardinality(DOMAIN question_banks)
    /\ \A r \in list_question_banks(Db) :
          /\ r.question_count = Cardinality(BankQuestions(Db, r.id))
          /\ r.topic_count = Cardinality(BankTopics(Db, r.id))
    /\ \A b \in BankIds :
          /\ {r.id : r \in list_topics(Db, b)} = BankTopics(Db, b)
          /\ Cardinality(list_topics(Db, b)) = Cardinality(BankTopics(Db, b))
          /\ \A r \in list_topics(Db, b) :
                r.question_count = Cardinality(LinkedQuestions(Db, r.id))

\* A bank holds two questions and two topics, one topic linked to both
\* questions and the other to one.
C17_Witness ==
    \E b \in DOMAIN question_banks :
        /\ Cardinality(BankQuestions(Db, b)) = 2
        /\ Cardinality(BankTopics(Db, b)) = 2
        /\ \E t \in BankTopics(Db, b) : Cardinality(LinkedQuestions(Db, t)) = 2
        /\ \E t \in BankTopics(Db, b) : Cardinality(LinkedQuestions(Db, t)) = 1

\* The arguments of a search_questions call with keyword arguments kw.
SearchArgs(kw) == Override(SearchDefaults, kw)

\* Question q satisfies every filter supplied in a (an empty string or an
\* empty tag list counts as not supplied).
Satisfies(db, q, a) ==
    LET row == db.questions[q]
    IN  /\ Given(a.bank_id) => row.bank_id = a.bank_id
        /\ Given(a.topic_id) => a.topic_id \in LinkedTopics(db, q)
        /\ Given(a.question_type) => row.question_type = a.question_type
        /\ Given(a.bloom_level) => row.bloom_level = a.bloom_level
        /\ ~IsNone(a.difficulty_min) => row.difficulty >= Val(a.difficulty_min)
        /\ ~IsNone(a.difficulty_max) => row.difficulty <= Val(a.difficulty_max)
        /\ Given(a.status) => row.status = a.status
        /\ Truthy(a.tags) =>
              \E x \in Range(Val(a.tags)) : Lower(x) \in TagsOf(db, q)
        /\ Given(a.search_text) => Like(row, a.search_text)

\* The ids of a search result, in order.
ResultIds(res) == [i \in 1..Len(res) |-> res[i].id]

(* C14: search_questions with a limit of at least the number of stored     *)
(* questions returns exactly the questions that satisfy every supplied     *)
(* filter, each once, also when a question matches several requested tags; *)
(* with no filter all questions are returned.                              *)
C14_SearchFilters ==
    \A kw \in SearchKwargs :
        LET a == SearchArgs(kw)
            res == search_questions(Db, a)
        IN  a.limit >= Cardinality(DOMAIN questions) =>
              /\ Range(ResultIds(res)) =
                    {q \in DOMAIN questions : Satisfies(Db, q, a)}
              /\ Len(res) = Cardinality(Range(ResultIds(res)))
              /\ kw = <<>> => Range(ResultIds(res)) = DOMAIN questions

\* A question carries both requested tags and is linked to the requested
\* topic, and the search returns it and not the other stored question.
C14_Witness ==
    LET a == SearchArgs([bank_id |-> "bank-a", topic_id |-> "topic-b",
                         tags |-> Some(<<"Basic", "algebra">>)])
        res == search_questions(Db, a)
    IN  /\ Len(res) = 1
        /\ {"algebra", "basic"} \subseteq TagsOf(Db, res[1].id)
        /\ Cardinality(DOMAIN questions) = 2
        /\ Len(search_questions(Db, SearchArgs([difficulty_min |-> Some(3),
                                                difficulty_max |-> Some(7)]))) = 2

(* C15: search_questions returns its results most recently written first:  *)
(* when updated_at of question A records a later time than updated_at of   *)
(* question B, A precedes B, whichever of create_question and              *)
(* update_question wrote each.                                             *)
C15_SearchOrder ==
    LET res == search_questions(Db, SearchArgs(<<>>))
    IN  \A i, j \in 1..Len(res) :
            res[i].row.updated_at.t > res[j].row.updated_at.t => i < j

\* The smaller of two numbers.
Smaller(a, b) == IF a < b THEN a ELSE b

Rejections ==
    {"Question bank not found", "Invalid question type",
     "Invalid Bloom's level", "Multiple choice questions require options",
     "Difficulty must be between 0.0 and 1.0", "Points must be non-negative",
     "Estimated time must be at least 1 second", "Question not found",
     "Invalid status", "No updates provided", "Topic not found in this bank"}

\* The tools whose answer is one message.
MessageTools ==
    {"tool_create_question_bank", "tool_delete_question_bank",
     "tool_create_topic", "tool_delete_topic", "tool_create_question",
     "tool_update_question", "tool_delete_question"}

\* The last call was a call of the tool op that returned message.
Answered(op, message) ==
    /\ op \in MessageTools
    /\ last.op = op
    /\ last.raised = ""
    /\ last.ret = message

\* The arguments of the last call, a tool create_question, are among those
\* C18 lists: an unknown bank, an invalid type, a Bloom's level that is a
\* non-empty string outside the six levels, multiple_choice without
\* options, or a number out of range.
CreateListed ==
    LET a == last.args
    IN  \/ a.bank_id \notin DOMAIN Pre.question_banks
        \/ a.question_type \notin valid_types
        \/ a.bloom_level \notin valid_bloom \cup {NULL, ""}
        \/ a.question_type = "multiple_choice" /\ ~Truthy(a.options)
        \/ a.difficulty < 0 \/ a.difficulty > 10
        \/ a.points < 0
        \/ a.estimated_time_seconds < 1

\* The arguments of the last call, a tool update_question, are among those
\* C18 lists: an unknown question, an invalid Bloom's level or status, a
\* number out of range, or no field at all.
UpdateListed ==
    LET u == last.args.updates
    IN  \/ last.args.question_id \notin DOMAIN Pre.questions
        \/ u.bloom_level \notin valid_bloom \cup {NULL}
        \/ u.status \notin valid_status \cup {NULL}
        \/ ~IsNone(u.difficulty)
              /\ (Val(u.difficulty) < 0 \/ Val(u.difficulty) > 10)
        \/ ~IsNone(u.points) /\ Val(u.points) < 0
        \/ ~IsNone(u.estimated_time_seconds)
              /\ Val(u.estimated_time_seconds) < 1
        \/ u = ToolUpdateDefaults

C19_StoredQuestionsValid ==
    \A q \in DOMAIN questions :
        /\ questions[q].question_type \in valid_types
        /\ questions[q].status \in valid_status
        /\ questions[q].bloom_level \in valid_bloom \cup {NULL}
        /\ questions[q].difficulty >= 0 /\ questions[q].difficulty <= 10
        /\ questions[q].points >= 0
        /\ questions[q].estimated_time_seconds >= 1

\* The entries of the list at the positions of keep, from position i on, in
\* list order.
RECURSIVE Picked(_, _, _)
Picked(ids, i, keep) ==
    IF i > Len(ids) THEN <<>>
    ELSE (IF i \in keep THEN <<ids[i]>> ELSE <<>>) \o Picked(ids, i + 1, keep)

C21_ActivateOnlyDrafts ==
    (last.op = "tool_activate_questions" /\ last.raised = "") =>
        \A q \in (DOMAIN questions) \cap (DOMAIN Pre.questions) :
            questions[q].status # Pre.questions[q].status =>
                Pre.questions[q].status = "draft"

(* C22: the store imposes no order on status transitions: for every stored *)
(* question with status s and every status s' among draft, active and      *)
(* archived, update_question(status = s') succeeds (on a database that is  *)
(* not locked) and leaves the status s'; archived -> draft and             *)
(* active -> draft included.                                               *)
C22_AnyStatusTransition ==
    /\ \A q \in DOMAIN questions : \A s \in valid_status :
          LET res == update_question(Db, now, q, [status |-> s])
          IN  /\ res.raised = ""
              /\ res.ret = "row"
              /\ res.db.questions[q].status = s
    /\ (/\ last.op = "tool_update_question"
        /\ ~last.locked
        /\ last.args.question_id \in DOMAIN Pre.questions
        /\ \E s \in valid_status :
              last.args.updates = [ToolUpdateDefaults EXCEPT !.status = s]) =>
          /\ last.raised = ""
          /\ last.ret = "Question updated"
          /\ questions[last.args.question_id].status =
                last.args.updates.status

\* An archived question was set back to draft.
C22_Witness ==
    /\ last.op = "tool_update_question"
    /\ last.raised = ""
    /\ last.args.question_id \in DOMAIN Pre.questions
    /\ Pre.questions[last.args.question_id].status = "archived"
    /\ last.args.updates.status = "draft"
    /\ questions[last.args.question_id].status = "draft"

(* C23: create_question and update_question are atomic.  A call that      *)
(* fails, also one that fails at the insert of a link to a missing topic   *)
(* after the row was inserted or updated or the old links were deleted,    *)
(* persists nothing: a failed create_question leaves no question, link or  *)
(* tag row, and a failed update_question leaves the scalar fields, the     *)
(* topic links and the tags of the question as they were.                  *)
C23_FailedCallsPersistNothing ==
    /\ (last.op = "create_question" /\ last.raised # "") =>
          /\ questions = Pre.questions
          /\ question_topics = Pre.question_topics
          /\ question_tags = Pre.question_tags
    /\ (last.op = "update_question" /\ last.raised # "") =>
          /\ questions = Pre.questions
          /\ question_topics = Pre.question_topics
          /\ question_tags = Pre.question_tags
          /\ \A q \in DOMAIN Pre.questions :
                get_question(Db, q) = get_question(Pre, q)

\* update_question was given a topic that is not stored for a question
\* that had links: the call failed after its DELETE of the old links.
C23_Witness ==
    /\ last.op = "update_question"
    /\ last.raised = "IntegrityError"
    /\ last.args.question_id \in DOMAIN Pre.questions
    /\ "topics" \in DOMAIN last.args.updates
    /\ ~(Range(Val(last.args.updates.topics)) \subseteq DOMAIN Pre.topics)
    /\ LinkedTopics(Pre, last.args.question_id) # {}
    /\ LinkedTopics(Db, last.args.question_id) =
          LinkedTopics(Pre, last.args.question_id)

\* The topics other than t whose parent reference is t.
ChildTopics(db, t) ==
    {c \in (DOMAIN db.topics) \ {t} : db.topics[c].parent_id = t}

(* C24, as stated: delete_topic(t) does not reparent or modify the child   *)
(* topics of t; after it every topic whose parent reference was t still    *)
(* exists and still has the parent reference t.                            *)
C24_ChildrenKeepParentAsStated ==
    Returned("delete_topic", "True") =>
        \A c \in ChildTopics(Pre, last.args.topic_id) :
            /\ c \in DOMAIN topics
            /\ topics[c].parent_id = last.args.topic_id

(* C24, amended: delete_topic(t) neither removes the child topics of t nor *)
(* gives them another parent; after it every topic whose parent reference  *)
(* was t still exists with its bank, name and description unchanged and    *)
(* its parent reference unset, and every other topic but t is unchanged.   *)
C24_ChildrenKeptParentUnset ==
    Returned("delete_topic", "True") =>
        LET t == last.args.topic_id
        IN  /\ DOMAIN topics = (DOMAIN Pre.topics) \ {t}
            /\ \A c \in ChildTopics(Pre, t) :
                  topics[c] = [Pre.topics[c] EXCEPT !.parent_id = NULL]
            /\ \A c \in (DOMAIN topics) \ ChildTopics(Pre, t) :
                  topics[c] = Pre.topics[c]

\* A topic that another topic had as its parent was deleted.
C24_Witness ==
    /\ Returned("delete_topic", "True")
    /\ ChildTopics(Pre, last.args.topic_id) # {}
    /\ \A c \in ChildTopics(Pre, last.args.topic_id) :
          c \in DOMAIN topics /\ topics[c].parent_id = NULL

(* C26: in every reachable state the parent reference of every topic is    *)
(* unset or the id of a stored topic; create_topic with a parent id that   *)
(* names no stored topic, the new topic itself aside, fails and stores     *)
(* nothing; and the removal of a topic, by delete_topic or with its bank,  *)
(* leaves the parent reference of its children unset.                      *)
C26_ParentRefsHold ==
    /\ \A t \in DOMAIN topics :
          topics[t].parent_id = NULL \/ topics[t].parent_id \in DOMAIN topics
    /\ (/\ last.op = "create_topic"
        /\ last.args.parent_id \notin
              (DOMAIN Pre.topics) \cup {NULL, last.args.topic_id}) =>
          /\ last.raised # ""
          /\ ~last.locked => last.raised = "IntegrityError"
          /\ Db = Pre
    /\ (last.op \in {"delete_topic", "delete_question_bank"}
            /\ last.raised = "") =>
          \A c \in DOMAIN topics :
              Pre.topics[c].parent_id \notin DOMAIN topics =>
                  topics[c].parent_id = NULL

\* create_topic was refused for a new topic of a stored bank because its
\* parent id names no topic.
C26_Witness ==
    /\ last.op = "create_topic"
    /\ last.raised = "IntegrityError"
    /\ last.args.topic_id \notin DOMAIN Pre.topics
    /\ last.args.bank_id \in DOMAIN Pre.question_banks
    /\ last.args.parent_id \notin
          (DOMAIN Pre.topics) \cup {NULL, last.args.topic_id}
    /\ last.args.topic_id \notin DOMAIN topics

\* The parent of the parent ... of topic t, n references up; NULL when the
\* chain ends before.
RECURSIVE Ancestor(_, _, _)
Ancestor(db, t, n) ==
    IF n = 0 THEN t
    ELSE LET up == Ancestor(db, t, n - 1)
         IN  IF up \in DOMAIN db.topics THEN db.topics[up].parent_id ELSE NULL

\* The parent references form a cycle.
ParentCycle(db) ==
    \E t \in DOMAIN db.topics :
        \E n \in 1..Cardinality(DOMAIN db.topics) : Ancestor(db, t, n) = t

(* C27: no cycle prevention is enforced on parent references: create_topic *)
(* with its own id as the parent id (a new id, a stored bank, a database   *)
(* that is not locked) succeeds and stores a topic that is its own parent, *)
(* so that a state whose parent references form a cycle is reached by      *)
(* create_topic alone.                                                     *)
C27_SelfParentAccepted ==
    (/\ last.op = "create_topic"
     /\ ~last.locked
     /\ last.args.parent_id = last.args.topic_id
     /\ last.args.topic_id \notin DOMAIN Pre.topics
     /\ last.args.bank_id \in DOMAIN Pre.question_banks) =>
        /\ last.raised = ""
        /\ topics[last.args.topic_id].parent_id = last.args.topic_id
        /\ ParentCycle(Db)

\* A create_topic call turned tables without a cycle into tables with one.
C27_Witness ==
    /\ Returned("create_topic", "row")
    /\ ~ParentCycle(Pre)
    /\ ParentCycle(Db)

\* The list repeats an element.
Repeats(l) == \E i, j \in 1..Len(l) : i < j /\ l[i] = l[j]

\* The updates give a topics list that repeats an id, or a tags list with
\* two entries that are equal after lowercasing.
GivesDuplicates(u) ==
    \/ /\ "topics" \in DOMAIN u
       /\ ~IsNone(u.topics)
       /\ Repeats(Val(u.topics))
    \/ /\ "tags" \in DOMAIN u
       /\ ~IsNone(u.tags)
       /\ Repeats([i \in 1..Len(Val(u.tags)) |-> Lower(Val(u.tags)[i])])

(* C28: update_question given a topics list that repeats an id, or a tags  *)
(* list with two entries that are equal after lowercasing, fails (with the *)
(* constraint violation IntegrityError, unless an abandoned connection     *)
(* holds the database locked and the call fails with OperationalError) and *)
(* leaves the topics, the tags and the scalar fields of the question, and  *)
(* the rest of the tables, unchanged.                                      *)
C28_UpdateRejectsDuplicates ==
    (/\ last.op = "update_question"
     /\ GivesDuplicates(last.args.updates)
     /\ SetKeys(last.args.updates) \subseteq QuestionColumns) =>
        /\ last.raised # ""
        /\ ~last.locked => last.raised = "IntegrityError"
        /\ LinkedTopics(Db, last.args.question_id) =
              LinkedTopics(Pre, last.args.question_id)
        /\ TagsOf(Db, last.args.question_id) = TagsOf(Pre, last.args.question_id)
        /\ questions = Pre.questions
        /\ Db = Pre

\* A linked and tagged question was updated with a list that names one
\* stored topic twice, or with tags that differ in case only.
C28_Witness ==
    /\ last.op = "update_question"
    /\ last.raised = "IntegrityError"
    /\ last.args.question_id \in DOMAIN Pre.questions
    /\ GivesDuplicates(last.args.updates)
    /\ \/ /\ "topics" \in DOMAIN last.args.updates
          /\ Range(Val(last.args.updates.topics)) \subseteq DOMAIN Pre.topics
       \/ "tags" \in DOMAIN last.args.updates
    /\ LinkedTopics(Db, last.args.question_id) # {}
    /\ TagsOf(Db, last.args.question_id) # {}

\* What C29 says of the banks and of the questions of other banks after
\* delete_question_bank(b): they are in place, the questions with their
\* fields and tags unchanged and with their links but those to topics of b.
OtherBanksKept(b) ==
    /\ question_banks = Drop(Pre.question_banks, {b})
    /\ DOMAIN topics = (DOMAIN Pre.topics) \ BankTopics(Pre, b)
    /\ DOMAIN questions = (DOMAIN Pre.questions) \ BankQuestions(Pre, b)
    /\ \A q \in DOMAIN questions :
          /\ questions[q] = Pre.questions[q]
          /\ TagsOf(Db, q) = TagsOf(Pre, q)
          /\ LinkedTopics(Db, q) = LinkedTopics(Pre, q) \ BankTopics(Pre, b)

(* C29, as stated: delete_question_bank(b) leaves every other bank and     *)
(* every topic and question of other banks in place with unchanged fields  *)
(* and tags; the only change outside b is that the links from questions of *)
(* other banks to topics of b are removed.                                 *)
C29_OtherBanksUnchangedAsStated ==
    Returned("delete_question_bank", "True") =>
        /\ OtherBanksKept(last.args.bank_id)
        /\ \A t \in DOMAIN topics : topics[t] = Pre.topics[t]

(* C29, amended: as stated, but for two changes outside b instead of one:  *)
(* the links from questions of other banks to topics of b are removed, and *)
(* the parent reference of a topic of another bank whose parent was a      *)
(* topic of b is unset; the other fields of the topics are unchanged.      *)
C29_OtherBanksKept ==
    Returned("delete_question_bank", "True") =>
        /\ OtherBanksKept(last.args.bank_id)
        /\ \A t \in DOMAIN topics :
              topics[t] =
                  IF Pre.topics[t].parent_id
                        \in BankTopics(Pre, last.args.bank_id)
                  THEN [Pre.topics[t] EXCEPT !.parent_id = NULL]
                  ELSE Pre.topics[t]

\* A bank was deleted while a tagged question of another bank was linked to
\* one of its topics.
C29_Witness ==
    /\ Returned("delete_question_bank", "True")
    /\ question_banks # <<>>
    /\ \E q \in DOMAIN questions :
          /\ LinkedTopics(Pre, q) \cap BankTopics(Pre, last.args.bank_id) # {}
          /\ LinkedTopics(Db, q) \cap BankTopics(Pre, last.args.bank_id) = {}
          /\ TagsOf(Db, q) # {}

C30_MultipleChoiceHasOptions ==
    \A q \in DOMAIN questions :
        questions[q].question_type = "multiple_choice" =>
            Truthy(Val(get_question(Db, q)).options)

====
